---- MODULE Spec2Model ----
(***************************************************************************)
(* Conversions between native values and host (Emacs Lisp) values, and the *)
(* embedding of native objects in host user-ptr values: a model of         *)
(* src/src/convert.rs.                                                     *)
(*                                                                         *)
(* The host heap is a sequence of host values; a value handle             *)
(* (emacs_value) is an index into it.  Native heap objects created by      *)
(* Box<T> are a second sequence; a raw pointer is an index into that.      *)
(* Every function of convert.rs is an operator from its arguments and the  *)
(* heaps to its result and the new heaps; every action applies one of      *)
(* them and records what it returned, and the host calls it made, in       *)
(* `last`.                                                                 *)
(***************************************************************************)
EXTENDS Integers, Sequences, FiniteSets, TLC

VARIABLES host, objects, process, padding, last

vars == <<host, objects, process, padding, last>>

-----------------------------------------------------------------------------
(* Bounds of the model.                                                    *)

MaxHandles == 2
MaxObjects == 2
MaxStrValues == 1
MaxValues == 1
MaxStrLen == 3
MaxPadding == 1
MaxInt == 1
MaxDepth == 2

-----------------------------------------------------------------------------
(* Host values.                                                            *)

\* The types made transferable by enable_transfers!, instantiated.  Two
\* wrappers around the same inner type are two types.
Types == {"RefCell<i64>", "Mutex<i64>"}

type_name(T) == T

\* The identity (address) of the function finalize::<T>.
finalize_fn(T) == [fn |-> "finalize", ty |-> T]

\* Finalizers a user-ptr of the host can carry that are not ours: none at
\* all (a null function pointer), or a function of another module.
NullFin == [fn |-> "null", ty |-> ""]
ForeignFin == [fn |-> "foreign", ty |-> ""]

Finalizer == {finalize_fn(T) : T \in Types} \cup {NullFin, ForeignFin}

\* `given` is not the host's: it remembers the native value a host value was
\* made from.
HostValue(k) ==
    [kind |-> k, num |-> 0, bytes |-> <<>>, fin |-> NullFin, ptr |-> 0, live |-> TRUE,
     given |-> <<>>]

HostNil == HostValue("nil")
HostT == HostValue("t")
HostInteger(n) == [HostValue("integer") EXCEPT !.num = n]
HostFloat(n) == [HostValue("float") EXCEPT !.num = n]
HostString(bs) == [HostValue("string") EXCEPT !.bytes = bs]
HostUserPtr(fin, p) == [HostValue("user_ptr") EXCEPT !.fin = fin, !.ptr = p]

Handles == DOMAIN host
LiveHandles == {h \in Handles : host[h].live}

\* One call of a host function through the environment's function table.
Call(f) == [fn |-> f, dest |-> "", cap |-> 0]

\* What an operation returned, and the host calls it made.
NoLast ==
    [op |-> "none", ty |-> "", handle |-> 0, ok |-> FALSE, err |-> "",
     expected |-> "", ptr |-> 0, calls |-> <<>>, panic |-> FALSE,
     bytes |-> <<>>, len1 |-> 0, buf |-> <<>>, out1 |-> "", out2 |-> "",
     val |-> <<>>, convs |-> <<>>]

Ok == [NoLast EXCEPT !.ok = TRUE]
Err(e) == [NoLast EXCEPT !.err = e]
Panic == [NoLast EXCEPT !.panic = TRUE]

-----------------------------------------------------------------------------
(* The raw call gateway: raw_call!/handle_exit turn a host call that       *)
(* raised into Err(Signal) and any other into Ok of its return value.      *)

\* get_user_finalizer raises wrong-type-argument on a value that is no
\* user-ptr, and returns the user-ptr's finalizer otherwise.
get_user_finalizer(hst, v) ==
    [signal |-> hst[v].kind # "user_ptr", ret |-> hst[v].fin]

\* get_user_ptr: likewise, returning the stored pointer.
get_user_ptr(hst, v) ==
    [signal |-> hst[v].kind # "user_ptr", ret |-> hst[v].ptr]

-----------------------------------------------------------------------------
(* Opaque object transfer.                                                 *)

\* A native heap object: its type, who is responsible for freeing it, how
\* often its destructor ran, and the handle into_lisp returned for it (0:
\* none).
Object(T) == [ty |-> T, owner |-> "leaked", drops |-> 0, handle |-> 0]

\* get_raw_pointer with the guard `if fin == finalize::<T>` left out: any
\* finalizer at all passes.
get_raw_pointer_any_finalizer(T, hst, v) ==
    LET f == get_user_finalizer(hst, v)
        c1 == <<Call("get_user_finalizer")>>
    IN  IF f.signal
        THEN [Err("Signal") EXCEPT !.calls = c1]
        ELSE IF f.ret # NullFin
        THEN [Ok EXCEPT !.ptr = get_user_ptr(hst, v).ret,
                        !.calls = Append(c1, Call("get_user_ptr"))]
        ELSE [Err("WrongTypeUserPtr") EXCEPT !.expected = type_name(T), !.calls = c1]

\* Env::get_raw_pointer::<T>
get_raw_pointer(T, hst, v) ==
    LET f == get_user_finalizer(hst, v)
        c1 == <<Call("get_user_finalizer")>>
    IN  IF f.signal
        THEN [Err("Signal") EXCEPT !.calls = c1]
        ELSE IF f.ret # NullFin /\ f.ret = finalize_fn(T)
        THEN LET p == get_user_ptr(hst, v)
                 c2 == Append(c1, Call("get_user_ptr"))
             IN  IF p.signal
                 THEN [Err("Signal") EXCEPT !.calls = c2]
                 ELSE [Ok EXCEPT !.ptr = p.ret, !.calls = c2]
        ELSE [Err("WrongTypeUserPtr") EXCEPT !.expected = type_name(T), !.calls = c1]

\* from_lisp taking the object back (Box::from_raw) instead of borrowing it:
\* the box is dropped when the caller is done with it.
ref_from_lisp_owning(T, hst, objs, v) ==
    LET r == get_raw_pointer(T, hst, v)
    IN  [res |-> r, host |-> hst,
         objects |-> IF r.ok /\ r.ptr \in DOMAIN objs
                     THEN [objs EXCEPT ![r.ptr].drops = @ + 1, ![r.ptr].owner = "dropped"]
                     ELSE objs]

\* <&T as FromLisp>::from_lisp: the pointer becomes a shared reference; the
\* heaps are as they were.
ref_from_lisp(T, hst, objs, v) ==
    [res |-> get_raw_pointer(T, hst, v), host |-> hst, objects |-> objs]

\* <Box<T> as IntoLisp>::into_lisp: Box::into_raw gives up the box, and
\* make_user_ptr hands the pointer and finalize::<T> to the host.  When the
\* host raises, the pointer is dropped on the floor: nobody frees the object.
box_into_lisp(T, hst, objs, signal) ==
    LET raw == Len(objs) + 1
        h == Len(hst) + 1
        c == <<Call("make_user_ptr")>>
    IN  IF signal
        THEN [res |-> [Err("Signal") EXCEPT !.calls = c],
              host |-> hst,
              objects |-> Append(objs, Object(T))]
        ELSE [res |-> [Ok EXCEPT !.handle = h, !.calls = c],
              host |-> Append(hst, HostUserPtr(finalize_fn(T), raw)),
              objects |-> Append(objs, [Object(T) EXCEPT !.owner = "host", !.handle = h])]

\* What a panic that leaves an extern "C" function without being caught can
\* do: the function has no catch_unwind, and unwinding out of it is undefined.
UnwindOutcomes == {"abort", "unwind_into_host"}

\* finalize that never rebuilds the box: the destructor does not run.
finalize_forgets(T, objs, ptr, panics, outcome) ==
    [objects |-> objs, exit |-> "return"]

\* finalize::<T>: Box::from_raw(ptr) is rebuilt and dropped at once, which
\* runs T's destructor.
finalize(T, objs, ptr, panics, outcome) ==
    [objects |-> [objs EXCEPT ![ptr].drops = @ + 1, ![ptr].owner = "dropped"],
     exit |-> IF panics THEN outcome ELSE "return"]

-----------------------------------------------------------------------------
(* String codec.                                                           *)

\* The bytes of the model's strings: NUL and the letter a.  A native String
\* is its UTF-8 bytes (as_bytes and from_utf8_unchecked copy nothing).
Bytes == {0, 97}

Strings == UNION {[1..n -> Bytes] : n \in 0..MaxStrLen}

Zeros(n) == [i \in 1..n |-> 0]

\* make_string(ptr, len): the host keeps the first len bytes at ptr.
make_string(bs, len) == HostString(SubSeq(bs, 1, len))

\* copy_string_contents(value, dest, &len).  It raises on a value that is no
\* string, and on a buffer shorter than the string and the host's padding;
\* with a null dest it only reports the length needed; `fault` is what else
\* the host does: raise ("signal"), or return false without raising
\* ("false").
copy_string_contents(hst, v, dest, cap, pad, fault) ==
    LET need == Len(hst[v].bytes) + pad
    IN  IF hst[v].kind # "string" \/ fault = "signal" \/ (dest # "null" /\ cap < need)
        THEN [signal |-> TRUE, ret |-> FALSE, len |-> 0, buf |-> <<>>]
        ELSE IF fault = "false"
        THEN [signal |-> FALSE, ret |-> FALSE, len |-> 0, buf |-> <<>>]
        ELSE [signal |-> FALSE, ret |-> TRUE, len |-> need,
              buf |-> IF dest = "null" THEN <<>>
                      ELSE hst[v].bytes \o Zeros(pad) \o Zeros(cap - need)]

Faults == {"none", "signal", "false"}

\* What the host does in a phase, as seen from outside the codec.
Outcome(r) == IF r.signal THEN "signal" ELSE IF r.ret THEN "ok" ELSE "false"

\* Stripping that removes every zero byte, not only the trailing ones.
strip_all_zero_bytes(bytes) == SelectSeq(bytes, LAMBDA b : b # 0)

\* strip_trailing_zero_bytes
RECURSIVE strip_trailing_zero_bytes(_)
strip_trailing_zero_bytes(bytes) ==
    LET len == Len(bytes)
    IN  IF len > 0 /\ bytes[len] = 0
        THEN strip_trailing_zero_bytes(SubSeq(bytes, 1, len - 1))
        ELSE bytes

\* A first call that already passes a buffer.
phase1_dest_buffer == "buffer"

\* The destination of the first call of copy_string_contents: ptr::null_mut().
phase1_dest == "null"

\* The buffer of the second call: vec![0u8; len as usize].
phase2_buffer(len) == Zeros(len)

\* The check of copy_string_contents's own return value left out.
copy_failed_ignored(ok) == FALSE

\* if !ok { panic!(...) }, after either call.
copy_failed(ok) == ~ok

\* Env::string_bytes
string_bytes(hst, v, pad, fault1, fault2) ==
    LET c1 == [fn |-> "copy_string_contents", dest |-> phase1_dest, cap |-> 0]
        r1 == copy_string_contents(hst, v, phase1_dest, 0, pad, fault1)
        len == r1.len
        bytes == phase2_buffer(len)
        c2 == [fn |-> "copy_string_contents", dest |-> "buffer", cap |-> Len(bytes)]
        r2 == copy_string_contents(hst, v, "buffer", Len(bytes), pad, fault2)
    IN  IF r1.signal
        THEN [Err("Signal") EXCEPT !.calls = <<c1>>]
        ELSE IF copy_failed(r1.ret)
        THEN [Panic EXCEPT !.calls = <<c1>>]
        ELSE IF r2.signal
        THEN [Err("Signal") EXCEPT !.calls = <<c1, c2>>, !.len1 = len]
        ELSE IF copy_failed(r2.ret)
        THEN [Panic EXCEPT !.calls = <<c1, c2>>, !.len1 = len]
        ELSE [Ok EXCEPT !.calls = <<c1, c2>>, !.len1 = len, !.buf = r2.buf,
                        !.bytes = strip_trailing_zero_bytes(r2.buf)]

\* <String as FromLisp>::from_lisp: the bytes of string_bytes, as a String.
string_from_lisp(hst, v, pad, fault1, fault2) ==
    string_bytes(hst, v, pad, fault1, fault2)

\* into_lisp counting a terminating NUL that a Rust string does not have.
str_into_lisp_short(s, hst, signal) ==
    IF signal
    THEN [res |-> [Err("Signal") EXCEPT !.calls = <<Call("make_string")>>], host |-> hst]
    ELSE [res |-> [Ok EXCEPT !.handle = Len(hst) + 1, !.calls = <<Call("make_string")>>],
          host |-> Append(hst, make_string(s, Len(s) - 1))]

\* <&T as IntoLisp>::into_lisp for T: AsRef<str>, which String::into_lisp
\* calls with as_str(): the bytes, their number, and make_string.
str_into_lisp(s, hst, signal) ==
    LET bytes == s
        len == Len(bytes)
        c == <<Call("make_string")>>
    IN  IF signal
        THEN [res |-> [Err("Signal") EXCEPT !.calls = c], host |-> hst]
        ELSE [res |-> [Ok EXCEPT !.handle = Len(hst) + 1, !.calls = c],
              host |-> Append(hst, make_string(bytes, len))]

-----------------------------------------------------------------------------
(* Scalars, unit, and Option.                                              *)

\* A native value is a sequence: Some wrappers, then what they wrap.
\* <<SomeV, NoneV>> is Some(None), <<NoneV>> is None, <<UnitV>> is ().
Native(t) == [tag |-> t, b |-> FALSE, n |-> 0]
SomeV == Native("Some")
NoneV == Native("None")
UnitV == Native("unit")
BoolV(b) == [Native("bool") EXCEPT !.b = b]
I64V(n) == [Native("i64") EXCEPT !.n = n]
F64V(n) == [Native("f64") EXCEPT !.n = n]
ValueV(v) == [Native("Value") EXCEPT !.n = v]

Wrapped(k, x) == [i \in 1..k |-> SomeV] \o <<x>>

Numbers == 0..MaxInt

Innermost ==
    {NoneV, UnitV, BoolV(TRUE), BoolV(FALSE)}
        \cup {I64V(n) : n \in Numbers} \cup {F64V(n) : n \in Numbers}

NativeValues == {Wrapped(k, x) : k \in 0..MaxDepth, x \in Innermost}

\* The type of a conversion from the host: Option wrappers around i64, f64
\* or Value, such as <<"Option", "i64">> for Option<i64>.
OptionOf(k, base) == [i \in 1..k |-> "Option"] \o <<base>>

FromTypes == {OptionOf(k, base) : k \in 0..MaxDepth, base \in {"i64", "f64", "Value"}}

\* extract_integer raises wrong-type-argument on a value that is no integer,
\* and when `fault` (an integer out of the range of i64).
extract_integer(hst, v, fault) ==
    [signal |-> hst[v].kind # "integer" \/ fault, ret |-> hst[v].num]

\* extract_float raises on a value that is no float.
extract_float(hst, v, fault) ==
    [signal |-> hst[v].kind # "float" \/ fault, ret |-> hst[v].num]

\* Value::is_not_nil
is_not_nil(hst, v) == hst[v].kind # "nil"

\* A host function that makes a value: raw_call_value! gives Err(Signal)
\* when it raised and the handle of the new value otherwise.
raw_call_value(f, val, hst, signal) ==
    IF signal
    THEN [res |-> [Err("Signal") EXCEPT !.calls = <<Call(f)>>], host |-> hst]
    ELSE [res |-> [Ok EXCEPT !.handle = Len(hst) + 1, !.calls = <<Call(f)>>],
          host |-> Append(hst, val)]

\* Env::intern
intern(name, hst, signal) ==
    raw_call_value("intern", IF name = "nil" THEN HostNil ELSE HostT, hst, signal)

\* from_lisp returning what extract_integer returned without looking at the
\* host's exit status.
i64_from_lisp_unchecked(hst, v, fault) ==
    [Ok EXCEPT !.val = <<I64V(extract_integer(hst, v, fault).ret)>>,
               !.calls = <<Call("extract_integer")>>]

\* <i64 as FromLisp>::from_lisp
i64_from_lisp(hst, v, fault) ==
    LET r == extract_integer(hst, v, fault)
        c == <<Call("extract_integer")>>
    IN  IF r.signal
        THEN [Err("Signal") EXCEPT !.calls = c]
        ELSE [Ok EXCEPT !.val = <<I64V(r.ret)>>, !.calls = c]

\* <f64 as FromLisp>::from_lisp
f64_from_lisp(hst, v, fault) ==
    LET r == extract_float(hst, v, fault)
        c == <<Call("extract_float")>>
    IN  IF r.signal
        THEN [Err("Signal") EXCEPT !.calls = c]
        ELSE [Ok EXCEPT !.val = <<F64V(r.ret)>>, !.calls = c]

\* <Value as FromLisp>::from_lisp
value_from_lisp(v) == [Ok EXCEPT !.val = <<ValueV(v)>>]

\* Option<T>::from_lisp without the test for nil.
option_from_lisp_eager(not_nil, inner) ==
    IF inner.ok THEN [inner EXCEPT !.val = <<SomeV>> \o @] ELSE inner

\* <Option<T> as FromLisp>::from_lisp, `inner` being T::from_lisp(value).
option_from_lisp(not_nil, inner) ==
    IF not_nil
    THEN IF inner.ok
         THEN [inner EXCEPT !.val = <<SomeV>> \o @]
         ELSE inner
    ELSE [Ok EXCEPT !.val = <<NoneV>>]

\* T::from_lisp for the T that `T` describes; convs lists the conversions
\* that ran, outermost first.
RECURSIVE from_lisp(_, _, _, _)
from_lisp(T, hst, v, fault) ==
    LET r == IF Head(T) = "Option"
             THEN option_from_lisp(is_not_nil(hst, v), from_lisp(Tail(T), hst, v, fault))
             ELSE IF Head(T) = "i64" THEN i64_from_lisp(hst, v, fault)
             ELSE IF Head(T) = "f64" THEN f64_from_lisp(hst, v, fault)
             ELSE value_from_lisp(v)
    IN  [r EXCEPT !.convs = <<T>> \o @]

\* <() as IntoLisp>::into_lisp
unit_into_lisp(hst, signal) == intern("nil", hst, signal)

\* <bool as IntoLisp>::into_lisp
bool_into_lisp(b, hst, signal) ==
    IF b THEN intern("t", hst, signal) ELSE intern("nil", hst, signal)

\* <i64 as IntoLisp>::into_lisp
i64_into_lisp(n, hst, signal) == raw_call_value("make_integer", HostInteger(n), hst, signal)

\* <f64 as IntoLisp>::into_lisp
f64_into_lisp(n, hst, signal) == raw_call_value("make_float", HostFloat(n), hst, signal)

\* The None arm of <Option<T> as IntoLisp>::into_lisp.
none_into_lisp(hst, signal) == intern("nil", hst, signal)

\* x.into_lisp(env); the Some arm of Option<T> is t.into_lisp(env).
RECURSIVE into_lisp(_, _, _)
into_lisp(x, hst, signal) ==
    LET t == Head(x).tag
    IN  IF t = "Some" THEN into_lisp(Tail(x), hst, signal)
        ELSE IF t = "None" THEN none_into_lisp(hst, signal)
        ELSE IF t = "unit" THEN unit_into_lisp(hst, signal)
        ELSE IF t = "bool" THEN bool_into_lisp(Head(x).b, hst, signal)
        ELSE IF t = "i64" THEN i64_into_lisp(Head(x).n, hst, signal)
        ELSE f64_into_lisp(Head(x).n, hst, signal)

-----------------------------------------------------------------------------
(* Actions.                                                                *)

Running == process = "running"

Init ==
    /\ host = <<>>
    /\ objects = <<>>
    /\ process = "running"
    /\ padding \in 0..MaxPadding
    /\ last = NoLast

\* The host's string padding plays no part in the transfer of objects or in
\* the conversion of scalars.
InitNoStrings == Init /\ padding = 0

\* Native code boxes a value of type T and gives it to the host.
BoxIntoLisp(T, signal) ==
    /\ Running
    /\ Len(host) < MaxHandles
    /\ Len(objects) < MaxObjects
    /\ LET r == box_into_lisp(T, host, objects, signal)
       IN  /\ host' = r.host
           /\ objects' = r.objects
           /\ last' = [r.res EXCEPT !.op = "box_into_lisp", !.ty = T]
    /\ UNCHANGED <<process, padding>>

\* Native code borrows a &T from a handle of the current call.
RefFromLisp(T, v) ==
    /\ Running
    /\ v \in LiveHandles
    /\ LET r == ref_from_lisp(T, host, objects, v)
       IN  /\ host' = r.host
           /\ objects' = r.objects
           /\ last' = [r.res EXCEPT !.op = "ref_from_lisp", !.ty = T, !.handle = v]
    /\ UNCHANGED <<process, padding>>

\* The host, or another module, makes a value that is not one of ours.
HostMakeValue(val) ==
    /\ Running
    /\ Len(host) < MaxHandles
    /\ host' = Append(host, val)
    /\ UNCHANGED <<objects, process, padding, last>>

\* The host's collector discards a value and, for a user-ptr with a
\* finalizer, calls the finalizer on the stored pointer.
HostCollect(v, panics, outcome) ==
    /\ Running
    /\ v \in LiveHandles
    /\ host' = [host EXCEPT ![v].live = FALSE]
    /\ IF host[v].kind = "user_ptr" /\ host[v].fin.fn = "finalize"
       THEN LET r == finalize(host[v].fin.ty, objects, host[v].ptr, panics, outcome)
            IN  /\ objects' = r.objects
                /\ process' = IF r.exit = "return" THEN "running"
                              ELSE IF r.exit = "abort" THEN "aborted"
                              ELSE "unwound_into_host"
       ELSE UNCHANGED <<objects, process>>
    /\ UNCHANGED <<padding, last>>

\* Native code makes a host string of s.
StrIntoLisp(s, signal) ==
    /\ Running
    /\ Len(host) < MaxStrValues
    /\ LET r == str_into_lisp(s, host, signal)
       IN  /\ host' = IF r.res.ok
                      THEN [r.host EXCEPT ![r.res.handle].given = s]
                      ELSE r.host
           /\ last' = [r.res EXCEPT !.op = "str_into_lisp"]
    /\ UNCHANGED <<objects, process, padding>>

\* Native code reads a handle as a String.  out1 and out2 remember what the
\* host did in each phase of a well-formed exchange.
StringFromLisp(v, fault1, fault2) ==
    /\ Running
    /\ v \in LiveHandles
    /\ LET r == string_from_lisp(host, v, padding, fault1, fault2)
           need == Len(host[v].bytes) + padding
           o1 == Outcome(copy_string_contents(host, v, "null", 0, padding, fault1))
           o2 == Outcome(copy_string_contents(host, v, "buffer", need, padding, fault2))
       IN  /\ last' = [r EXCEPT !.op = "string_from_lisp", !.handle = v,
                                !.out1 = o1, !.out2 = IF o1 = "ok" THEN o2 ELSE ""]
           /\ process' = IF r.panic THEN "panicked" ELSE process
    /\ UNCHANGED <<host, objects, padding>>

NextString ==
    \/ \E s \in Strings, signal \in BOOLEAN : StrIntoLisp(s, signal)
    \/ \E v \in Handles, fault1 \in Faults, fault2 \in Faults :
           StringFromLisp(v, fault1, fault2)
    \/ \E val \in {HostInteger(0)} : Len(host) < MaxStrValues /\ HostMakeValue(val)

SpecString == Init /\ [][NextString]_vars

\* Native code converts the native value x to a host value.
IntoLisp(x, signal) ==
    /\ Running
    /\ Len(host) < MaxValues
    /\ LET r == into_lisp(x, host, signal)
       IN  /\ host' = IF r.res.ok
                      THEN [r.host EXCEPT ![r.res.handle].given = x]
                      ELSE r.host
           /\ last' = [r.res EXCEPT !.op = "into_lisp", !.val = x]
    /\ UNCHANGED <<objects, process, padding>>

\* Native code converts a handle to a native value of the type T describes.
FromLisp(T, v, fault) ==
    /\ Running
    /\ v \in LiveHandles
    /\ last' = [from_lisp(T, host, v, fault) EXCEPT
                    !.op = "from_lisp", !.ty = T, !.handle = v,
                    !.out1 = IF fault THEN "signal" ELSE ""]
    /\ UNCHANGED <<host, objects, process, padding>>

NextValue ==
    \/ \E x \in NativeValues, signal \in BOOLEAN : IntoLisp(x, signal)
    \/ \E T \in FromTypes, v \in Handles, fault \in BOOLEAN : FromLisp(T, v, fault)
    \/ \E val \in {HostString(<<97>>)} : Len(host) < MaxValues /\ HostMakeValue(val)

SpecValue == InitNoStrings /\ [][NextValue]_vars

OtherValues == {HostInteger(0), HostUserPtr(NullFin, 0), HostUserPtr(ForeignFin, 0)}

NextTransfer ==
    \/ \E T \in Types, signal \in BOOLEAN : BoxIntoLisp(T, signal)
    \/ \E T \in Types, v \in Handles : RefFromLisp(T, v)
    \/ \E val \in OtherValues : HostMakeValue(val)
    \/ \E v \in Handles, panics \in BOOLEAN, outcome \in UnwindOutcomes :
           HostCollect(v, panics, outcome)

SpecTransfer == InitNoStrings /\ [][NextTransfer]_vars

Next == NextTransfer \/ NextString \/ NextValue

Spec == Init /\ [][Next]_vars

-----------------------------------------------------------------------------
(* Properties of the transfer of objects, under SpecTransfer.              *)

LastRef == last.op = "ref_from_lisp" /\ last.handle \in Handles

OurUserPtr(v) == host[v].kind = "user_ptr" /\ host[v].fin.fn = "finalize"

\* C1: retrieving a &T from a user-ptr whose finalizer is not finalize::<T>
\* (another type's, another wrapper's, a foreign one or none) fails with
\* WrongTypeUserPtr naming T, returns no pointer and never calls get_user_ptr.
C1_TypeTagSoundness ==
    (LastRef /\ host[last.handle].kind = "user_ptr"
             /\ host[last.handle].fin # finalize_fn(last.ty))
        => /\ ~last.ok
           /\ ~last.panic
           /\ last.err = "WrongTypeUserPtr"
           /\ last.expected = type_name(last.ty)
           /\ last.ptr = 0
           /\ \A i \in DOMAIN last.calls : last.calls[i].fn # "get_user_ptr"

\* A Mutex<i64> was asked of a handle that embeds a RefCell<i64>.
C1_Witness ==
    /\ LastRef
    /\ last.ty = "Mutex<i64>"
    /\ host[last.handle].fin = finalize_fn("RefCell<i64>")
    /\ last.err = "WrongTypeUserPtr"

\* The state of every object and of every handle of ours agree: an embedded
\* object was never destroyed and its handle is live; a collected handle's
\* object was destroyed once; an object that never reached the host was
\* never destroyed.
C2_Consistent ==
    /\ \A p \in DOMAIN objects :
          LET o == objects[p]
          IN  /\ o.drops <= 1
              /\ o.owner = "leaked" => (o.drops = 0 /\ o.handle = 0)
              /\ o.owner = "host" =>
                    /\ o.drops = 0
                    /\ o.handle \in Handles
                    /\ host[o.handle].live
                    /\ host[o.handle] = HostUserPtr(finalize_fn(o.ty), p)
              /\ o.owner = "dropped" =>
                    /\ o.drops = 1
                    /\ o.handle \in Handles
                    /\ ~host[o.handle].live
    /\ \A v \in Handles :
          OurUserPtr(v) =>
              /\ host[v].ptr \in DOMAIN objects
              /\ objects[host[v].ptr].handle = v
              /\ objects[host[v].ptr].drops = (IF host[v].live THEN 0 ELSE 1)
    /\ (LastRef /\ last.ok /\ host[last.handle].live) =>
           objects[last.ptr].drops = 0

\* An object changes only when the collector discards its handle, and then
\* its destructor runs once; a handle keeps its pointer and its finalizer.
C2_Step ==
    /\ \A p \in DOMAIN objects :
          objects'[p] # objects[p] =>
              /\ objects[p].owner = "host"
              /\ objects'[p] = [objects[p] EXCEPT !.drops = 1, !.owner = "dropped"]
              /\ host[objects[p].handle].live
              /\ ~host'[objects[p].handle].live
              /\ last' = last
    /\ \A v \in Handles :
          /\ host'[v].ptr = host[v].ptr
          /\ host'[v].fin = host[v].fin
          /\ host'[v].kind = host[v].kind

\* C2: every embedded object is destroyed exactly once, by the collector's
\* call of its finalizer and by nothing else; transfers and retrievals
\* neither destroy nor un-embed, and no retrieval yields a reference to a
\* finalized object while the handle is live.
C2_Lifecycle == [](C2_Consistent) /\ [][C2_Step]_vars

\* Two objects were embedded; one was collected and destroyed, the other is
\* still embedded and was just retrieved.
C2_Witness ==
    /\ LastRef
    /\ last.ok
    /\ objects[last.ptr].owner = "host"
    /\ \E p \in DOMAIN objects : objects[p].owner = "dropped" /\ objects[p].drops = 1

\* C3: a &T retrieved from the handle Box<T>::into_lisp returned passes the
\* type check and points to the object that was transferred, which is still
\* embedded; the retrieval changes neither the host's values nor the objects.
C3_TypedRetrieval ==
    [][\A T \in Types, v \in Handles :
          (RefFromLisp(T, v) /\ host[v].kind = "user_ptr" /\ host[v].fin = finalize_fn(T))
              => /\ last'.ok
                 /\ last'.ptr = host[v].ptr
                 /\ last'.ptr \in DOMAIN objects
                 /\ objects[last'.ptr].handle = v
                 /\ objects[last'.ptr].ty = T
                 /\ objects[last'.ptr].owner = "host"
                 /\ objects[last'.ptr].drops = 0
                 /\ \A i \in DOMAIN last'.calls :
                       last'.calls[i].fn \in {"get_user_finalizer", "get_user_ptr"}
                 /\ host' = host
                 /\ objects' = objects]_vars

\* The second of two embedded objects was retrieved, after the first was
\* collected.
C3_Witness ==
    /\ LastRef
    /\ last.ok
    /\ last.handle = 2
    /\ objects[last.ptr].handle = 2
    /\ ~host[1].live
    /\ host[2].live

\* C4: a panic of the destructor that finalize::<T> runs never gets back
\* into the host.
C4_PanicContained == process # "unwound_into_host"

-----------------------------------------------------------------------------
(* Properties of the string codec, under SpecString.                       *)

LastString == last.op = "string_from_lisp" /\ last.handle \in Handles

CopyCall(dest, cap) == [fn |-> "copy_string_contents", dest |-> dest, cap |-> cap]

\* C5: string_bytes asks for the length with a null destination, then copies
\* into a buffer of exactly that length; a signal in the first phase ends it
\* with Err(Signal) before any second call, a signal in the second phase ends
\* it with Err(Signal), and neither returns bytes.
C5_TwoPhases ==
    LastString =>
        /\ Len(last.calls) >= 1
        /\ last.calls[1] = CopyCall("null", 0)
        /\ last.out1 = "signal" =>
              /\ last.calls = <<CopyCall("null", 0)>>
              /\ ~last.ok /\ ~last.panic
              /\ last.err = "Signal"
              /\ last.bytes = <<>> /\ last.buf = <<>>
        /\ last.out1 = "ok" =>
              /\ last.len1 = Len(host[last.handle].bytes) + padding
              /\ last.calls = <<CopyCall("null", 0), CopyCall("buffer", last.len1)>>
        /\ (last.out1 = "ok" /\ last.out2 = "signal") =>
              /\ ~last.ok /\ ~last.panic
              /\ last.err = "Signal"
              /\ last.bytes = <<>> /\ last.buf = <<>>
        /\ (last.out1 = "ok" /\ last.out2 = "ok") => last.ok

\* The host raised in the second phase, on a string that is not empty.
C5_Witness ==
    /\ LastString
    /\ last.out1 = "ok"
    /\ last.out2 = "signal"
    /\ last.len1 > padding
    /\ Len(last.calls) = 2

\* C6: when copy_string_contents returns false without a signal, in either
\* phase, string_bytes panics: it returns neither an error nor bytes, and
\* nothing runs after it.
C6_FatalPath ==
    (LastString /\ (last.out1 = "false" \/ (last.out1 = "ok" /\ last.out2 = "false")))
        => /\ last.panic
           /\ ~last.ok
           /\ last.err = ""
           /\ last.bytes = <<>> /\ last.buf = <<>>
           /\ process = "panicked"
           /\ last.out1 = "false" => Len(last.calls) = 1

\* The second call returned false on a string with bytes in it.
C6_Witness ==
    /\ LastString
    /\ last.out1 = "ok"
    /\ last.out2 = "false"
    /\ host[last.handle].bytes # <<>>
    /\ last.panic

\* s without the zero bytes at its end.
IsStripped(r, s) ==
    /\ Len(r) <= Len(s)
    /\ \A i \in 1..Len(r) : r[i] = s[i]
    /\ \A i \in (Len(r) + 1)..Len(s) : s[i] = 0
    /\ r = <<>> \/ r[Len(r)] # 0

RoundTrip ==
    /\ LastString
    /\ last.ok
    /\ host[last.handle].kind = "string"

EndsInZero(s) == s # <<>> /\ s[Len(s)] = 0

\* C7, as claimed: into_lisp and then String::from_lisp give back every
\* string as it was.
C7_RoundTripAll == RoundTrip => last.bytes = host[last.handle].given

\* C7, amended: a string that does not end in a zero byte comes back as it
\* was, the empty string and strings with zero bytes inside included; any
\* other string comes back without the zero bytes at its end.
C7_RoundTrip ==
    RoundTrip =>
        LET s == host[last.handle].given
        IN  /\ ~EndsInZero(s) => last.bytes = s
            /\ IsStripped(last.bytes, s)

\* "a\0a" came back.
C7_Witness ==
    /\ RoundTrip
    /\ host[last.handle].given = <<97, 0, 97>>
    /\ last.bytes = <<97, 0, 97>>

\* C8: the bytes string_bytes returns are the filled buffer without its
\* trailing zero bytes: a prefix of it that is empty or ends in a byte that
\* is not zero, every byte after it being zero; stripping them again changes
\* nothing, and the length of phase 1 is their number plus the number of
\* bytes stripped.
C8_Stripping ==
    (LastString /\ last.ok) =>
        LET stripped == Len(last.buf) - Len(last.bytes)
        IN  /\ IsStripped(last.bytes, last.buf)
            /\ strip_trailing_zero_bytes(last.bytes) = last.bytes
            /\ stripped >= 0
            /\ last.len1 = Len(last.bytes) + stripped

\* A buffer with a zero byte inside and zero bytes at its end.
C8_Witness ==
    /\ LastString
    /\ last.ok
    /\ Len(last.buf) > Len(last.bytes) + padding
    /\ \E i \in 1..Len(last.bytes) : last.bytes[i] = 0

-----------------------------------------------------------------------------
(* Properties of the scalar and Option conversions, under SpecValue.       *)

LastFrom == last.op = "from_lisp" /\ last.handle \in Handles

IsOption(T) == Head(T) = "Option"

\* Native values that into_lisp turns into nil although they are Some.
Collapsing == {<<SomeV, NoneV>>, <<SomeV, BoolV(FALSE)>>, <<SomeV, UnitV>>}

\* C9: None becomes nil; nil read as an Option<T> is None and T's own
\* conversion does not run; any other value read as an Option<T> is Some of
\* what T's conversion gives, or T's error; so Some(None), Some(false) and
\* Some(()) come back as None.
C9_AbsenceMapping ==
    /\ (last.op = "into_lisp" /\ last.ok /\ last.val = <<NoneV>>) =>
           host[last.handle].kind = "nil"
    /\ (last.op = "into_lisp" /\ last.ok /\ last.val \in Collapsing) =>
           host[last.handle].kind = "nil"
    /\ (LastFrom /\ IsOption(last.ty)) =>
           LET v == host[last.handle]
               base == last.ty[Len(last.ty)]
               wraps == Len(last.ty) - 1
           IN  /\ v.kind = "nil" =>
                     /\ last.ok
                     /\ last.val = <<NoneV>>
                     /\ last.convs = <<last.ty>>
                     /\ last.calls = <<>>
               /\ v.given \in Collapsing => (last.ok /\ last.val = <<NoneV>>)
               /\ (v.kind = "integer" /\ base = "i64" /\ last.out1 # "signal") =>
                     (last.ok /\ last.val = Wrapped(wraps, I64V(v.num)))
               /\ (v.kind = "float" /\ base = "f64" /\ last.out1 # "signal") =>
                     (last.ok /\ last.val = Wrapped(wraps, F64V(v.num)))
               /\ (v.kind # "nil" /\ base = "Value") =>
                     (last.ok /\ last.val = Wrapped(wraps, ValueV(last.handle)))
               /\ (v.kind \notin {"nil", "integer"} /\ base = "i64") =>
                     (~last.ok /\ last.err = "Signal" /\ last.val = <<>>)
               /\ (v.kind # "nil" /\ base \in {"i64", "f64"} /\ last.out1 = "signal") =>
                     (~last.ok /\ last.err = "Signal" /\ last.val = <<>>)
               /\ v.kind # "nil" =>
                     last.convs = [i \in 1..Len(last.ty) |-> SubSeq(last.ty, i, Len(last.ty))]

\* Some(None) was made a host value and read back as an Option<Option<i64>>.
C9_Witness ==
    /\ LastFrom
    /\ last.ty = <<"Option", "Option", "i64">>
    /\ host[last.handle].given = <<SomeV, NoneV>>
    /\ last.val = <<NoneV>>

Scalar(T) == T \in {<<"i64">>, <<"f64">>}

NotNumeric(v) == host[v].kind \notin {"integer", "float"}

====
